---- MODULE Spec2Model ----
(***************************************************************************)
(* Model of the simple-profiler audit library (src/simpleprof.c): the      *)
(* bootstrap la_preinit, the gmon header builder make_gmon_header and the  *)
(* profile file shared by the processes that run the bootstrap.            *)
(*                                                                         *)
(* Platform: LP64, little endian (uintptr_t, size_t, uintmax_t and         *)
(* uint_fast32_t are 64 bits wide, unsigned int and uint32_t 32 bits,      *)
(* unsigned short 16 bits).  TLC's integers are 32 bits wide, so a 64-bit  *)
(* machine word is modelled as the sequence of its base-256 digits, least  *)
(* significant first and without leading zero digits (zero is << >>): the  *)
(* digits of a word are exactly the bytes the machine stores for it.       *)
(***************************************************************************)
EXTENDS Integers, Sequences, FiniteSets, TLC

VARIABLES world, binary, file, pc, cfg, loc, calls, diag, runs, failed, unit

vars == <<world, binary, file, pc, cfg, loc, calls, diag, runs, failed, unit>>

(***************************************************************************)
(* Unsigned machine arithmetic.                                            *)
(***************************************************************************)
RECURSIVE Norm(_)
\* the digits of a without its most significant zero digits
Norm(a) ==
  IF a = << >> THEN << >>
  ELSE IF a[Len(a)] = 0 THEN Norm(SubSeq(a, 1, Len(a) - 1))
  ELSE a

RECURSIVE FromNat(_)
\* the word of a small natural number
FromNat(n) == IF n = 0 THEN << >> ELSE <<n % 256>> \o FromNat(n \div 256)

RECURSIVE ToNat(_)
\* the natural number of a word known to be small
ToNat(a) == IF a = << >> THEN 0 ELSE a[1] + 256 * ToNat(Tail(a))

RECURSIVE Zeros(_)
Zeros(n) == IF n = 0 THEN << >> ELSE <<0>> \o Zeros(n - 1)

\* 2^(8*n)
Pow256(n) == Zeros(n) \o <<1>>

RECURSIVE AddC(_, _, _)
AddC(a, b, c) ==
  IF a = << >> /\ b = << >> THEN (IF c = 0 THEN << >> ELSE <<c>>)
  ELSE LET x == IF a = << >> THEN 0 ELSE Head(a)
           y == IF b = << >> THEN 0 ELSE Head(b)
           s == x + y + c
       IN  <<s % 256>> \o AddC(IF a = << >> THEN a ELSE Tail(a),
                                IF b = << >> THEN b ELSE Tail(b),
                                s \div 256)

\* a + b, exact
Add(a, b) == Norm(AddC(a, b, 0))

RECURSIVE MulC(_, _, _)
MulC(a, k, c) ==
  IF a = << >> THEN FromNat(c)
  ELSE LET s == Head(a) * k + c
       IN  <<s % 256>> \o MulC(Tail(a), k, s \div 256)

\* a * k, exact, for a multiplier k below 2^22
MulSmall(a, k) == Norm(MulC(a, k, 0))

RECURSIVE DivC(_, _, _, _)
\* digits i..1 of the quotient, most significant first consumed, r the running remainder
DivC(a, k, i, r) ==
  IF i = 0 THEN << >>
  ELSE LET t == r * 256 + a[i]
       IN  DivC(a, k, i - 1, t % k) \o <<t \div k>>

\* floor(a / k) for a divisor 0 < k < 2^22
DivSmall(a, k) == Norm(DivC(a, k, Len(a), 0))

\* does the exact value fit an unsigned integer of n bytes?
Fits(a, n) == Len(Norm(a)) <= n

\* the value reduced modulo 2^(8*n): what an n-byte unsigned integer keeps
Wrap(a, n) == Norm(SubSeq(a, 1, IF Len(a) < n THEN Len(a) ELSE n))

\* the n bytes stored for an n-byte little-endian unsigned integer
Bytes(a, n) == LET w == Wrap(a, n) IN w \o Zeros(n - Len(w))

\* (a - b) modulo 2^(8*n)
SubWrap(a, b, n) ==
  LET nb == [i \in 1..n |-> 255 - Bytes(b, n)[i]]
  IN  Wrap(Add(Add(a, Norm(nb)), <<1>>), n)

RECURSIVE LessC(_, _, _)
LessC(a, b, i) ==
  IF i = 0 THEN FALSE
  ELSE IF a[i] # b[i] THEN a[i] < b[i]
  ELSE LessC(a, b, i - 1)

\* a < b for words without leading zero digits
Less(a, b) ==
  IF Len(a) # Len(b) THEN Len(a) < Len(b) ELSE LessC(a, b, Len(a))

(***************************************************************************)
(* The gmon.out header (make_gmon_header and the HEADER_SIZE macros).      *)
(* A platform pl gives the width of uintptr_t and the size and alignment   *)
(* of unsigned short; the bootstrap below runs on LP64.                    *)
(***************************************************************************)
LP64 == [ptr |-> 8, ushort |-> 2, align |-> 2]

\* sizeof(struct gmon_hdr): cookie[4], version[4], spare[3 * 4]
SizeofGmonHdr == 20

\* sizeof(struct gmon_hist_hdr) == sizeof(struct my_hist_hdr):
\* low_pc, high_pc, hist_size (4), prof_rate (4), dimen[15], dimen_abbrev
SizeofHistHdr(pl) == 2 * pl.ptr + 4 + 4 + 15 + 1

BASE_HEADER_SIZE(pl) == SizeofGmonHdr + 1 + SizeofHistHdr(pl)

NEED_DUMMY_HIST_HDR(pl) == BASE_HEADER_SIZE(pl) % pl.align # 0

\* mutant: the unsigned short after the dummy record is not counted
HEADER_SIZE_NoShort(pl) ==
  IF NEED_DUMMY_HIST_HDR(pl)
  THEN BASE_HEADER_SIZE(pl) + 1 + SizeofHistHdr(pl)
  ELSE BASE_HEADER_SIZE(pl)

HEADER_SIZE(pl) ==
  IF NEED_DUMMY_HIST_HDR(pl)
  THEN BASE_HEADER_SIZE(pl) + pl.ushort + 1 + SizeofHistHdr(pl)
  ELSE BASE_HEADER_SIZE(pl)

\* _Static_assert(HEADER_SIZE % alignof(unsigned short) == 0, ...): the library
\* is compiled only for a platform where this holds
StaticAssert(pl) == HEADER_SIZE(pl) % pl.align = 0

\* GMON_MAGIC "gmon", GMON_VERSION 1, spare zeroed by the static initializer
ghdr == <<103, 109, 111, 110>> \o Bytes(<<1>>, 4) \o Zeros(12)

\* GMON_TAG_TIME_HIST
TagTimeHist == <<0>>

\* PROFILE_FREQUENCY(): the kernel's clock tick rate
ProfRate == 100

\* strncpy(hist_hdr.dimen, "seconds", 15): the text, then zero padding
dimen == <<115, 101, 99, 111, 110, 100, 115>> \o Zeros(8)

\* the bytes of a struct my_hist_hdr with the given low_pc, high_pc, hist_size
hist_hdr(pl, low_pc, high_pc, hist_size) ==
  Bytes(low_pc, pl.ptr) \o Bytes(high_pc, pl.ptr) \o Bytes(hist_size, 4)
    \o Bytes(FromNat(ProfRate), 4) \o dimen \o <<115>>

\* 65536 * 2 / scale, for a scale that is not zero
BinWidth(scale) == (65536 * 2) \div scale

\* hist_hdr.high_pc = lowpc + nsamples * (65536 * 2 / scale), in uintptr_t
\* mutant: the width of a bin is left out
RealHighPcNoWidth(pl, lowpc, nsamples, scale) ==
  Wrap(Add(lowpc, nsamples), pl.ptr)

RealHighPc(pl, lowpc, nsamples, scale) ==
  Wrap(Add(lowpc, MulSmall(nsamples, BinWidth(scale))), pl.ptr)

\* the real histogram record
RealHistHdr(pl, lowpc, nsamples, scale) ==
  hist_hdr(pl, lowpc, RealHighPc(pl, lowpc, nsamples, scale), nsamples)

\* mutant: the dummy record does not tell the width of a bin
DummyHistHdrNoWidth(pl, scale) ==
  hist_hdr(pl, << >>, << >>, <<1>>) \o Zeros(pl.ushort)

\* the dummy record and the unsigned short written after it
DummyHistHdr(pl, scale) ==
  hist_hdr(pl, << >>, FromNat(BinWidth(scale)), <<1>>) \o Zeros(pl.ushort)

make_gmon_header(pl, lowpc, nsamples, scale) ==
  ghdr
    \o (IF NEED_DUMMY_HIST_HDR(pl)
        THEN TagTimeHist \o DummyHistHdr(pl, scale)
        ELSE << >>)
    \o TagTimeHist
    \o RealHistHdr(pl, lowpc, nsamples, scale)

(***************************************************************************)
(* The scale override: sscanf(env, "%u %c", &scale, dummy).  A string is   *)
(* the sequence of its characters.                                         *)
(***************************************************************************)
Digits == {"0", "1", "2", "3", "4", "5", "6", "7", "8", "9"}

DigitVal(c) ==
  CASE c = "0" -> 0 [] c = "1" -> 1 [] c = "2" -> 2 [] c = "3" -> 3
    [] c = "4" -> 4 [] c = "5" -> 5 [] c = "6" -> 6 [] c = "7" -> 7
    [] c = "8" -> 8 [] c = "9" -> 9

IsSpace(c) == c \in {" ", "\t", "\n"}

RECURSIVE SkipSpace(_)
SkipSpace(s) ==
  IF s # << >> /\ IsSpace(Head(s)) THEN SkipSpace(Tail(s)) ELSE s

RECURSIVE DigitRun(_)
\* the length of the longest prefix of s made of digits
DigitRun(s) ==
  IF s # << >> /\ Head(s) \in Digits THEN 1 + DigitRun(Tail(s)) ELSE 0

RECURSIVE Decimal(_, _)
\* the exact value of the digit string s appended to the value acc
Decimal(s, acc) ==
  IF s = << >> THEN acc
  ELSE Decimal(Tail(s), Add(MulSmall(acc, 10), FromNat(DigitVal(Head(s)))))

\* The %u conversion as glibc performs it: strtoul (which takes a sign, clamps
\* at ULONG_MAX and negates in unsigned long), stored through an unsigned int *.
ScanUnsigned(digits, negative) ==
  LET exact == Decimal(digits, << >>)
      ul    == IF Fits(exact, 8) THEN exact ELSE SubWrap(<< >>, <<1>>, 8)
      sgn   == IF negative THEN SubWrap(<< >>, ul, 8) ELSE ul
  IN  Wrap(sgn, 4)

\* [n |-> sscanf's return value, scale |-> the value stored by %u]
sscanf(env) ==
  LET s0   == SkipSpace(env)
      sign == s0 # << >> /\ Head(s0) \in {"+", "-"}
      s1   == IF sign THEN Tail(s0) ELSE s0
      nd   == DigitRun(s1)
      rest == SkipSpace(SubSeq(s1, nd + 1, Len(s1)))
  IN  IF s0 = << >> THEN [n |-> -1, scale |-> << >>]
      ELSE IF nd = 0 THEN [n |-> 0, scale |-> << >>]
      ELSE [n |-> IF rest = << >> THEN 1 ELSE 2,
            scale |-> ScanUnsigned(SubSeq(s1, 1, nd), sign /\ Head(s0) = "-")]

SCALE_1_TO_1 == 65536

DEFAULT_SCALE == 4

SizeofUShort == 2

\* getenv returned NULL: no string, written as a sequence that is no string
NoEnv == <<"NULL">>

\* SCALE_1_TO_1 * sizeof(unsigned short) / scale, stored in an unsigned int
ScaledBy(scale) ==
  IF Less(FromNat(SCALE_1_TO_1 * SizeofUShort), scale) THEN 0
  ELSE (SCALE_1_TO_1 * SizeofUShort) \div ToNat(scale)

\* mutant: what follows the number is not looked at
ParseScaleAnyTail(env) ==
  IF env = NoEnv
  THEN [ok |-> TRUE, s_scale |-> (SCALE_1_TO_1 * SizeofUShort) \div DEFAULT_SCALE]
  ELSE LET r == sscanf(env)
       IN  IF r.n < 1 \/ r.scale = << >> \/ ScaledBy(r.scale) = 0
           THEN [ok |-> FALSE, s_scale |-> 0]
           ELSE [ok |-> TRUE, s_scale |-> ScaledBy(r.scale)]

\* lines 258-272: [ok |-> the bootstrap goes on, s_scale |-> the scale it uses]
ParseScale(env) ==
  IF env = NoEnv
  THEN [ok |-> TRUE, s_scale |-> (SCALE_1_TO_1 * SizeofUShort) \div DEFAULT_SCALE]
  ELSE LET r == sscanf(env)
       IN  IF r.n # 1 \/ r.scale = << >> \/ ScaledBy(r.scale) = 0
           THEN [ok |-> FALSE, s_scale |-> 0]
           ELSE [ok |-> TRUE, s_scale |-> ScaledBy(r.scale)]

(***************************************************************************)
(* The target selector match_program_name (lines 75-107).  AT_EXECFN is in *)
(* the auxiliary vector of every process, so execfn is a string.           *)
(***************************************************************************)
RECURSIVE fnmatch(_, _)
\* fnmatch(p, s, FNM_PATHNAME) for patterns of ordinary characters, * and ?:
\* 0 for a match, FNM_NOMATCH (1) otherwise; * and ? do not match a slash
fnmatch(p, s) ==
  IF p = << >> THEN (IF s = << >> THEN 0 ELSE 1)
  ELSE IF Head(p) = "*"
  THEN IF fnmatch(Tail(p), s) = 0 THEN 0
       ELSE IF s # << >> /\ Head(s) # "/" THEN fnmatch(p, Tail(s))
       ELSE 1
  ELSE IF s = << >> THEN 1
  ELSE IF Head(p) = "?"
  THEN (IF Head(s) # "/" THEN fnmatch(Tail(p), Tail(s)) ELSE 1)
  ELSE IF Head(p) = Head(s) THEN fnmatch(Tail(p), Tail(s))
  ELSE 1

\* mutant: no pattern is taken for a path pattern
strchrNone(p, c) == FALSE

\* strchr(p, c) != NULL
strchr(p, c) == \E i \in 1..Len(p) : p[i] = c

RECURSIVE basename(_)
\* basename of <string.h>: what follows the last slash
basename(path) ==
  IF strchr(path, "/") THEN basename(Tail(path)) ELSE path

RECURSIVE strtok_r(_, _)
\* the tokens that the calls of strtok_r(.., delim, &saveptr) return in turn:
\* the longest runs without the delimiter that are not empty
strtok_r(str, delim) ==
  IF str = << >> THEN << >>
  ELSE IF Head(str) = delim THEN strtok_r(Tail(str), delim)
  ELSE LET n == CHOOSE k \in 1..Len(str) :
                  /\ \A i \in 1..k : str[i] # delim
                  /\ k = Len(str) \/ str[k + 1] = delim
       IN  <<SubSeq(str, 1, n)>> \o strtok_r(SubSeq(str, n + 1, Len(str)), delim)

RECURSIVE MatchLoop(_, _, _)
\* the loop of lines 89-103 over the tokens: retval at the first that matches
MatchLoop(toks, proc, retval) ==
  IF toks = << >> THEN NoEnv
  ELSE LET pat == Head(toks)
       IN  IF strchr(pat, "/")
           THEN IF fnmatch(pat, proc.execfn) = 0 \/ fnmatch(pat, proc.argv0) = 0
                THEN retval
                ELSE MatchLoop(Tail(toks), proc, retval)
           ELSE IF \/ fnmatch(pat, basename(proc.execfn)) = 0
                   \/ fnmatch(pat, basename(proc.argv0)) = 0
                THEN retval
                ELSE MatchLoop(Tail(toks), proc, retval)

\* env is the value of SP_PROFILE (NoEnv if unset); proc gives AT_EXECFN and
\* program_invocation_name, whose base name is program_invocation_short_name
match_program_name(env, proc) ==
  IF env = NoEnv THEN NoEnv
  ELSE MatchLoop(strtok_r(env, ":"), proc, basename(proc.execfn))

(***************************************************************************)
(* The diagnostic formatter (src/eprintf.c).  A character is a string: an  *)
(* ordinary character is the string of it; BEL, BS and VT, which are in    *)
(* CTRL1, are "^G", "^H" and "^K"; the other control and 8-bit characters  *)
(* are the strings in the domain of CharCode.  A value of type size_t that *)
(* counts characters is a natural number, and -1 is SIZE_MAX.              *)
(***************************************************************************)
\* the codes of the characters that are neither ordinary nor in CTRL1: SOH,
\* ESC, DEL, 0200, 0377
CharCode == [c \in {"^A", "^[", "^?", "M-^@", "M-^?"} |->
               CASE c = "^A" -> 1 [] c = "^[" -> 27 [] c = "^?" -> 127
                 [] c = "M-^@" -> 128 [] c = "M-^?" -> 255]

\* CTRL1 and, at the same place, CTRL2
CTRL1 == <<"\"", "\\", "^G", "^H", "\f", "\n", "\r", "\t", "^K">>

CTRL2 == <<"\"", "\\", "a", "b", "f", "n", "r", "t", "v">>

\* ISOCTAL(*src) for the text src that follows: its end is the terminator
ISOCTAL(src) ==
  src # << >> /\ Head(src) \in {"0", "1", "2", "3", "4", "5", "6", "7"}

\* the character of a digit below 16
DigitChar(d, upper) ==
  IF d < 10 THEN <<"0", "1", "2", "3", "4", "5", "6", "7", "8", "9">>[d + 1]
  ELSE IF upper THEN <<"A", "B", "C", "D", "E", "F">>[d - 9]
  ELSE <<"a", "b", "c", "d", "e", "f">>[d - 9]

\* what one turn of the loop of lines 81-142 stores for the character c, the
\* text src following it: lines 94-135
Visible(c, src, maxlen) ==
  IF \E i \in 1..Len(CTRL1) : CTRL1[i] = c
  THEN <<"\\", CTRL2[CHOOSE i \in 1..Len(CTRL1) : CTRL1[i] = c]>>
  ELSE IF c \in DOMAIN CharCode
  THEN LET code == CharCode[c]
           next == maxlen # 1 /\ ISOCTAL(src)
       IN  <<"\\">>
             \o (IF code >= 64 \/ next THEN <<DigitChar(code \div 64, FALSE)>> ELSE << >>)
             \o (IF code >= 8 \/ next THEN <<DigitChar((code \div 8) % 8, FALSE)>> ELSE << >>)
             \o <<DigitChar(code % 8, FALSE)>>
  ELSE <<c>>

RECURSIVE VisLoop(_, _)
\* the loop of lines 81-142 with binary = 0: [out |-> the characters stored,
\* src |-> the text not consumed, maxlen |-> what is left of maxlen]
VisLoop(src, maxlen) ==
  IF src = << >> THEN [out |-> << >>, src |-> src, maxlen |-> maxlen]
  ELSE LET r == IF maxlen = 1
                THEN [out |-> << >>, src |-> Tail(src), maxlen |-> 0]
                ELSE VisLoop(Tail(src), IF maxlen = -1 THEN -1 ELSE maxlen - 1)
       IN  [r EXCEPT !.out = Visible(Head(src), Tail(src), maxlen) \o @]

\* my_strvis(dst, src, 0, maxlen), dst given as whether it is a buffer:
\* [n |-> the value returned, out |-> the characters stored from dst[0] on,
\*  wild |-> whether characters were stored through a null dst].  For a null
\* src, strcpy(dst, "NULL") stores the four letters and the terminator "^@".
my_strvis(dst, src, maxlen) ==
  IF src = NoEnv
  THEN [n |-> 4, out |-> IF dst THEN <<"N", "U", "L", "L", "^@">> ELSE << >>,
        wild |-> FALSE]
  ELSE LET r    == IF maxlen # 0 THEN VisLoop(src, maxlen)
                   ELSE [out |-> << >>, src |-> src, maxlen |-> 0]
           cut  == r.maxlen = 0 /\ r.src # << >>
           body == <<"\"">> \o r.out \o <<"\"">>
           all  == IF cut THEN body \o <<".", ".", ".">> ELSE body
       IN  [n |-> Len(all),
            out |-> IF dst THEN all ELSE IF cut THEN <<".", ".", ".">> ELSE << >>,
            wild |-> ~dst /\ cut]

RECURSIVE ModC(_, _, _, _)
ModC(a, k, i, r) == IF i = 0 THEN r ELSE ModC(a, k, i - 1, (r * 256 + a[i]) % k)

\* a % k for a divisor 0 < k < 2^22
ModSmall(a, k) == ModC(a, k, Len(a), 0)

RECURSIVE Digits10(_)
\* lines 374-376: the decimal digits of ulval, at least one
Digits10(ulval) ==
  (IF DivSmall(ulval, 10) = << >> THEN << >> ELSE Digits10(DivSmall(ulval, 10)))
    \o <<DigitChar(ModSmall(ulval, 10), FALSE)>>

RECURSIVE Digits16(_, _)
\* lines 354-365: the hexadecimal digits of ulval, at least one
Digits16(ulval, upper) ==
  (IF DivSmall(ulval, 16) = << >> THEN << >>
   ELSE Digits16(DivSmall(ulval, 16), upper))
    \o <<DigitChar(ModSmall(ulval, 16), upper)>>

\* lines 346-387: the text of the number ulval under the flags
NumberText(ulval, flags) ==
  IF "HEX" \in flags
  THEN (IF "ALT" \in flags /\ ulval # << >>
        THEN <<"0", IF "UPPER" \in flags THEN "X" ELSE "x">> ELSE << >>)
         \o Digits16(ulval, "UPPER" \in flags)
  ELSE (IF "NEGATIVE" \in flags THEN <<"-">>
        ELSE IF "PLUS" \in flags THEN <<"+">>
        ELSE IF "PADSP" \in flags THEN <<" ">>
        ELSE << >>)
         \o Digits10(ulval)

NIOV_MAX == 32

\* mutant: the bound of the assertion is off by two
assert_niov_Late(niov) == niov < NIOV_MAX + 2

\* assert(niov < NIOV_MAX)
assert_niov(niov) == niov < NIOV_MAX

\* iov and niov while veprintf runs: segs, the segments stored in
\* iov[0..niov-1], and top, the highest index of iov stored to (-1: none)
NoIov == [segs |-> << >>, top |-> -1]

\* iov[niov].iov_base = ..., the rest of the element not yet stored
Touch(st) == [st EXCEPT !.top = IF Len(st.segs) > @ THEN Len(st.segs) ELSE @]

\* iov[niov].iov_base = ...; iov[niov].iov_len = ...; niov++
Store(st, seg) == [Touch(st) EXCEPT !.segs = Append(@, seg)]

\* veprintf ends without writing: assert called abort, or a store through a
\* null pointer stopped the process
Stopped(st, why) ==
  [iov |-> st.segs, top |-> st.top, aborted |-> why = "assert",
   fault |-> why = "fault", writev |-> 0]

\* lines 389-393
Finish(st) ==
  IF assert_niov(Len(st.segs))
  THEN LET end == Store(st, <<"\n">>)
       IN  [iov |-> end.segs, top |-> end.top, aborted |-> FALSE, fault |-> FALSE,
            writev |-> 1]
  ELSE Stopped(st, "assert")

RECURSIVE ParseFlags(_, _)
\* lines 211-230: the flags that follow the percent sign
ParseFlags(fmt, flags) ==
  IF fmt # << >> /\ Head(fmt) \in {" ", "+", "#"}
  THEN ParseFlags(Tail(fmt), flags \cup {CASE Head(fmt) = " " -> "PADSP"
                                          [] Head(fmt) = "+" -> "PLUS"
                                          [] Head(fmt) = "#" -> "ALT"})
  ELSE [flags |-> flags, fmt |-> fmt]

\* lines 232-246: the length modifier
ParseModifier(f) ==
  IF f.fmt # << >> /\ Head(f.fmt) \in {"l", "z", "t"}
  THEN [flags |-> f.flags \cup {CASE Head(f.fmt) = "l" -> "ISLONG"
                                  [] Head(f.fmt) = "z" -> "ISSIZE"
                                  [] Head(f.fmt) = "t" -> "ISDIFF"},
        fmt |-> Tail(f.fmt)]
  ELSE f

\* lines 248-264: the precision, -1 if there is none; .* takes it from arg
ParsePrecision(f, arg) ==
  IF f.fmt # << >> /\ Head(f.fmt) = "."
  THEN IF Len(f.fmt) > 1 /\ f.fmt[2] = "*"
       THEN [flags |-> f.flags, fmt |-> SubSeq(f.fmt, 3, Len(f.fmt)),
             prec |-> Head(arg), arg |-> Tail(arg)]
       ELSE LET nd == DigitRun(Tail(f.fmt))
            IN  [flags |-> f.flags, fmt |-> SubSeq(f.fmt, nd + 2, Len(f.fmt)),
                 prec |-> ToNat(Decimal(SubSeq(f.fmt, 2, nd + 1), << >>)),
                 arg |-> arg]
  ELSE [flags |-> f.flags, fmt |-> f.fmt, prec |-> -1, arg |-> arg]

RECURSIVE OrdinaryRun(_)
\* line 187: how many characters come before the next percent sign or the end
OrdinaryRun(fmt) ==
  IF fmt # << >> /\ Head(fmt) # "%" THEN 1 + OrdinaryRun(Tail(fmt)) ELSE 0

RECURSIVE FormatLoop(_, _, _)
RECURSIVE Fixed(_, _, _, _)
RECURSIVE Convert(_, _, _)
\* line 182, the head of the loop over a template in which every percent sign
\* is followed by a conversion (the text ends after one, never inside one)
FormatLoop(fmt, arg, st) ==
  IF fmt = << >> THEN Finish(st)
  ELSE IF ~assert_niov(Len(st.segs)) THEN Stopped(st, "assert")
  ELSE Fixed(fmt, 0, arg, Touch(st))

\* lines 186-196: the label fixed with iov[niov].iov_base = base and fmt
\* skip characters past it
Fixed(base, skip, arg, st) ==
  LET n    == skip + OrdinaryRun(SubSeq(base, skip + 1, Len(base)))
      st1  == IF n > 0 THEN Store(st, SubSeq(base, 1, n)) ELSE st
      rest == SubSeq(base, n + 1, Len(base))
  IN  IF n > 0 /\ ~assert_niov(Len(st1.segs)) THEN Stopped(st1, "assert")
      ELSE IF rest = << >> THEN Finish(st1)
      ELSE Convert(rest, arg, st1)

\* lines 198-387: fmt is at a percent sign
Convert(fmt, arg, st) ==
  LET f     == ParsePrecision(ParseModifier(ParseFlags(Tail(fmt), {})), arg)
      c     == Head(f.fmt)
      after == Tail(f.fmt)
      val   == Head(f.arg)
      left  == Tail(f.arg)
      max   == IF f.prec >= 0 THEN f.prec ELSE -1
  IN  CASE c = "d" ->
             FormatLoop(after, left,
               Store(st, NumberText(val.abs, f.flags \cup
                           (IF val.neg THEN {"NEGATIVE"} ELSE {}))))
        [] c = "p" ->
             FormatLoop(after, left,
               Store(st, NumberText(val, f.flags \cup {"ISPTR", "HEX", "ALT"})))
        [] c \in {"u", "x", "X"} ->
             FormatLoop(after, left,
               Store(st, NumberText(val, f.flags
                           \cup (IF c = "X" THEN {"UPPER"} ELSE {})
                           \cup (IF c = "u" THEN {} ELSE {"HEX"}))))
        [] c = "s" ->
             IF "ALT" \in f.flags
             THEN IF my_strvis(FALSE, val, max).wild
                  THEN Stopped(Touch(st), "fault")
                  ELSE FormatLoop(after, left,
                         Store(st, SubSeq(my_strvis(TRUE, val, max).out, 1,
                                          my_strvis(FALSE, val, max).n)))
             ELSE IF val # NoEnv
             THEN FormatLoop(after, left,
                    Store(st, SubSeq(val, 1, IF max = -1 \/ max > Len(val)
                                             THEN Len(val) ELSE max)))
             ELSE IF f.prec < 0 \/ f.prec >= 5
             THEN FormatLoop(after, left, Store(st, <<"(", "n", "i", "l", ")">>))
             ELSE FormatLoop(after, left, st)
        [] OTHER -> Fixed(f.fmt, 1, f.arg, Touch(st))

\* " (" CANON_NAME "): "
CanonName ==
  <<" ", "(", "s", "i", "m", "p", "l", "e", "p", "r", "o", "f", ".", "s", "o",
    ")", ":", " ">>

\* veprintf(tag, fmt, arg) in a process whose program_invocation_name is name;
\* tag is NoEnv for a null tag: [iov |-> the segments, top |-> the highest
\* index of iov stored to, aborted |-> an assertion failed, fault, writev |->
\* the number of calls of writev]
veprintf(name, tag, fmt, arg) ==
  LET head == Store(Store(NoIov, name), CanonName)
  IN  FormatLoop(fmt, arg,
        IF tag # NoEnv THEN Store(Store(head, tag), <<":", " ">>) ELSE head)

(***************************************************************************)
(* The buffer sizes (lines 274-284).                                       *)
(***************************************************************************)
\* mutant: memsz / 2, the odd byte dropped
HalfSizeFloor(memsz) == DivSmall(memsz, 2)

\* (memsz + 1) / 2 in size_t
HalfSize(memsz) == DivSmall(Wrap(Add(memsz, <<1>>), 8), 2)

\* [ok |-> no overflow was detected, nsamples, bufsiz, mapsiz]
SizeBuffer(memsz, s_scale) ==
  LET prod     == MulSmall(HalfSize(memsz), s_scale)
      tmp      == Wrap(prod, 8)
      quot     == DivSmall(tmp, 65536)
      nsamples == Wrap(quot, 8)
      buf      == MulSmall(nsamples, SizeofUShort)
      bufsiz   == Wrap(buf, 8)
      map      == Add(bufsiz, FromNat(HEADER_SIZE(LP64)))
      mapsiz   == Wrap(map, 8)
  IN  IF \/ ~Fits(prod, 8)
         \/ nsamples # quot
         \/ ~Fits(buf, 8)
         \/ ~Fits(map, 8)
      THEN [ok |-> FALSE, nsamples |-> << >>, bufsiz |-> << >>, mapsiz |-> << >>]
      ELSE [ok |-> TRUE, nsamples |-> nsamples, bufsiz |-> bufsiz, mapsiz |-> mapsiz]

(***************************************************************************)
(* The program header walk (lines 195-249).  A binary gives what the       *)
(* kernel reports in the auxiliary vector (AT_PHENT, AT_PHNUM, whether     *)
(* AT_PHDR is there), the link-time address phaddr of its program header   *)
(* table and the table's entries [p_type, x (PF_X set), p_vaddr, p_memsz]. *)
(* AT_PHNUM is below 2^32 in every binary, so (unsigned int) val == val.   *)
(***************************************************************************)
\* sizeof(ElfW(Phdr)) on LP64
SizeofPhdr == 56

\* mutant: a segment that is not executable is taken too
IsTextAnyLoad(ph) == ph.p_type = "PT_LOAD" /\ ph.p_memsz # << >>

\* lines 228-229: ph->p_type == PT_LOAD && (ph->p_flags & PF_X) && ph->p_memsz != 0
IsText(ph) == ph.p_type = "PT_LOAD" /\ ph.x /\ ph.p_memsz # << >>

RECURSIVE WalkPastEnd(_, _, _, _, _)
\* mutant: the count is tested before it is decremented ("!i--"), so that one
\* more entry is read when the table has one
WalkPastEnd(table, phdr, idx, i, load_addr) ==
  LET ph == table[idx]
      la == IF ph.p_type = "PT_PHDR" THEN SubWrap(phdr, ph.p_vaddr, 8) ELSE load_addr
  IN  IF ph.p_type # "PT_PHDR" /\ ph.p_type = "PT_LOAD" /\ ph.x /\ ph.p_memsz # << >>
      THEN [found |-> TRUE, load_addr |-> load_addr,
            lowpc |-> Wrap(Add(load_addr, ph.p_vaddr), 8),
            memsz |-> ph.p_memsz, examined |-> idx]
      ELSE IF i = 0 \/ idx = Len(table)
      THEN [found |-> FALSE, load_addr |-> la, lowpc |-> << >>,
            memsz |-> << >>, examined |-> idx]
      ELSE WalkPastEnd(table, phdr, idx + 1, i - 1, la)

RECURSIVE Walk(_, _, _, _, _)
\* the loop of lines 220-240 at entry idx with i entries left to examine;
\* examined is the index of the last entry read
Walk(table, phdr, idx, i, load_addr) ==
  LET ph == table[idx]
      la == IF ph.p_type = "PT_PHDR" THEN SubWrap(phdr, ph.p_vaddr, 8) ELSE load_addr
  IN  IF ph.p_type # "PT_PHDR" /\ IsText(ph)
      THEN [found |-> TRUE, load_addr |-> load_addr,
            lowpc |-> Wrap(Add(load_addr, ph.p_vaddr), 8),
            memsz |-> ph.p_memsz, examined |-> idx]
      ELSE IF i - 1 = 0
      THEN [found |-> FALSE, load_addr |-> la, lowpc |-> << >>,
            memsz |-> << >>, examined |-> idx]
      ELSE Walk(table, phdr, idx + 1, i - 1, la)

\* lines 195-249: [status |-> "ok", "silent" (return without a message) or
\* "error", msg |-> the message, load_addr, lowpc, memsz, examined |-> the
\* index of the last entry of the table read, 0 if none was]
LocateSegment(bin, phdr, l_addr) ==
  LET none == [status |-> "silent", msg |-> "", load_addr |-> << >>,
               lowpc |-> << >>, memsz |-> << >>, examined |-> 0]
      w    == Walk(bin.table, phdr, 1, bin.phnum, << >>)
  IN  IF bin.phent # 0 /\ bin.phent # SizeofPhdr
      THEN [none EXCEPT !.status = "error",
                        !.msg = "size of program header entry mismatch"]
      ELSE IF bin.phnum = 0 THEN none
      ELSE IF phdr = << >>
      THEN [none EXCEPT !.status = "error", !.msg = "no program header"]
      ELSE IF ~w.found
      THEN [none EXCEPT !.status = "error", !.examined = w.examined,
                        !.msg = "no loadable and executable segment found"]
      ELSE IF l_addr # w.load_addr
      THEN [none EXCEPT !.status = "error", !.examined = w.examined,
                        !.msg = "load address mismatch"]
      ELSE [status |-> "ok", msg |-> "", load_addr |-> w.load_addr,
            lowpc |-> w.lowpc, memsz |-> w.memsz, examined |-> w.examined]

\* getauxval(AT_PHDR) of a process of binary bin loaded at bias
AtPhdr(bin, bias) ==
  IF bin.hasphdr THEN Wrap(Add(bias, bin.phaddr), 8) ELSE << >>

(***************************************************************************)
(* The bootstrap la_preinit as a state machine, one per process, and the   *)
(* profile file <dir>/<progname>.profile the processes share.              *)
(*                                                                         *)
(* file: exists; size (st_size); hdr, the bytes at offsets below           *)
(* HEADER_SIZE; bins, the sample counters at HEADER_SIZE + 2*i for the     *)
(* tracked i.  Bytes past the end of the file read as zero here, which is  *)
(* what posix_fallocate makes them when it extends the file.               *)
(* SP_DEBUG is not set: DPRINTF changes no state of the bootstrap.         *)
(***************************************************************************)
Procs == {1, 2}

\* world: whether a process may start while another is still in its bootstrap,
\* and the results of match_program_name, the load biases and the values of
\* SP_SCALE that processes may start with
TrackedBins == {0}

\* model bounds: runs of the bootstrap started, and the value of a counter
MaxRuns == 2

MaxCount == 1

Terminal == {"Disabled", "Aborted", "Active"}

NoFile ==
  [exists |-> FALSE, size |-> << >>, hdr |-> Zeros(HEADER_SIZE(LP64)),
   bins |-> [i \in TrackedBins |-> 0]]

NoLoc ==
  [load_addr |-> << >>, lowpc |-> << >>, memsz |-> << >>, s_scale |-> 0,
   nsamples |-> << >>, bufsiz |-> << >>, mapsiz |-> << >>,
   fd |-> "none", st_size |-> << >>, mapped |-> FALSE, examined |-> 0]

NoCfg == [progname |-> "NULL", bias |-> << >>, scale |-> NoEnv]

\* EPRINTF(msg); return
Abort(p, msg) ==
  /\ pc' = [pc EXCEPT ![p] = "Aborted"]
  /\ diag' = [diag EXCEPT ![p] = Append(@, [tag |-> "error", msg |-> msg])]

Call(p, c) == calls' = [calls EXCEPT ![p] = Append(@, c)]

Call2(p, c, d) == calls' = [calls EXCEPT ![p] = @ \o <<c, d>>]

\* Process slots are taken in turn.  Where processes do not overlap, one starts
\* when no other is in its bootstrap; where they do, slot 2 is not the first.
StartsNext(p) ==
  IF world.overlap THEN p = 1 \/ pc[1] # "idle"
  ELSE /\ p = (runs % Cardinality(Procs)) + 1
       /\ \A q \in Procs : pc[q] \in Terminal \cup {"idle"}

\* a process of the binary starts, with its environment and load bias
Start(p) ==
  /\ pc[p] \in Terminal \cup {"idle"}
  /\ StartsNext(p)
  /\ runs < MaxRuns
  /\ runs' = runs + 1
  /\ \E n \in world.prognames, b \in world.biases, s \in world.scales :
       cfg' = [cfg EXCEPT ![p] = [progname |-> n, bias |-> b, scale |-> s]]
  /\ pc' = [pc EXCEPT ![p] = "select"]
  /\ loc' = [loc EXCEPT ![p] = NoLoc]
  /\ calls' = [calls EXCEPT ![p] = << >>]
  /\ diag' = [diag EXCEPT ![p] = << >>]
  /\ UNCHANGED <<unit, world, binary, file, failed>>

\* mutant: the bootstrap goes on without a target
SelectTargetAlways(p) ==
  /\ pc[p] = "select"
  /\ pc' = [pc EXCEPT ![p] = "locate"]
  /\ UNCHANGED <<unit, world, binary, file, cfg, loc, calls, diag, runs, failed>>

\* lines 191-193: progname = match_program_name()
SelectTarget(p) ==
  /\ pc[p] = "select"
  /\ pc' = [pc EXCEPT ![p] = IF cfg[p].progname = "NULL" THEN "Disabled" ELSE "locate"]
  /\ UNCHANGED <<unit, world, binary, file, cfg, loc, calls, diag, runs, failed>>

\* the bootstrap goes on to the next step
Goto(p, next) == pc' = [pc EXCEPT ![p] = next]

\* lines 195-249
Locate(p) ==
  /\ pc[p] = "locate"
  /\ LET r == LocateSegment(binary, AtPhdr(binary, cfg[p].bias), cfg[p].bias)
     IN  IF r.status = "ok"
         THEN /\ Goto(p, "scale")
              /\ loc' = [loc EXCEPT ![p].load_addr = r.load_addr,
                                    ![p].lowpc = r.lowpc, ![p].memsz = r.memsz,
                                    ![p].examined = r.examined]
              /\ UNCHANGED diag
         ELSE IF r.status = "silent"
         THEN /\ Goto(p, "Aborted")
              /\ UNCHANGED <<loc, diag>>
         ELSE /\ Abort(p, r.msg)
              /\ loc' = [loc EXCEPT ![p].examined = r.examined]
  /\ UNCHANGED <<unit, world, binary, file, cfg, calls, runs, failed>>

\* lines 258-272
Scale(p) ==
  /\ pc[p] = "scale"
  /\ LET r == ParseScale(cfg[p].scale)
     IN  IF r.ok
         THEN /\ Goto(p, "size")
              /\ loc' = [loc EXCEPT ![p].s_scale = r.s_scale]
              /\ UNCHANGED diag
         ELSE /\ Abort(p, "invalid SP_SCALE")
              /\ UNCHANGED loc
  /\ UNCHANGED <<unit, world, binary, file, cfg, calls, runs, failed>>

\* lines 274-284
Size(p) ==
  /\ pc[p] = "size"
  /\ LET r == SizeBuffer(loc[p].memsz, loc[p].s_scale)
     IN  IF r.ok
         THEN /\ Goto(p, "open")
              /\ loc' = [loc EXCEPT ![p].nsamples = r.nsamples,
                                    ![p].bufsiz = r.bufsiz, ![p].mapsiz = r.mapsiz]
              /\ UNCHANGED diag
         ELSE /\ Abort(p, "profile buffer size overflow")
              /\ UNCHANGED loc
  /\ UNCHANGED <<unit, world, binary, file, cfg, calls, runs, failed>>

\* line 302: fd = open(fnbuf, O_RDWR | O_CREAT, DEFFILEMODE); the result is
\* not tested, a failed open leaves fd = -1
Open(p) ==
  /\ pc[p] = "open"
  /\ Goto(p, "fstat")
  /\ Call(p, [op |-> "open"])
  /\ \/ /\ file' = [file EXCEPT !.exists = TRUE]
        /\ loc' = [loc EXCEPT ![p].fd = "open"]
        /\ UNCHANGED failed
     \/ /\ loc' = [loc EXCEPT ![p].fd = "bad"]
        /\ failed' = TRUE
        /\ UNCHANGED file
  /\ UNCHANGED <<unit, world, binary, cfg, diag, runs>>

\* lines 304-309: fstat(fd, &statbuf), which fails on fd = -1
Fstat(p) ==
  /\ pc[p] = "fstat"
  /\ \/ /\ loc[p].fd = "open"
        /\ Goto(p, "prepare")
        /\ loc' = [loc EXCEPT ![p].st_size = file.size]
        /\ Call(p, [op |-> "fstat"])
        /\ UNCHANGED <<diag, failed>>
     \/ /\ Abort(p, "fstat")
        /\ loc' = [loc EXCEPT ![p].fd = "none"]
        /\ Call2(p, [op |-> "fstat"], [op |-> "close"])
        /\ failed' = TRUE
  /\ UNCHANGED <<unit, world, binary, file, cfg, runs>>

\* posix_fallocate takes the length as an off_t: a length of 2^63 or more is
\* negative there and refused
FitsOffset(len) == Less(len, <<0, 0, 0, 0, 0, 0, 0, 128>>)

\* the size of a file of size old after posix_fallocate(fd, 0, len): the file is
\* extended to len bytes if it is shorter and never shrunk
Allocated(old, len) == IF Less(old, len) THEN len ELSE old

\* lines 311-321: the file was empty at fstat
Allocate(p) ==
  /\ pc[p] = "prepare"
  /\ loc[p].st_size = << >>
  /\ \/ /\ FitsOffset(loc[p].mapsiz)
        /\ file' = [file EXCEPT !.size = Allocated(@, loc[p].mapsiz)]
        /\ Goto(p, "mmap")
        /\ Call(p, [op |-> "posix_fallocate", len |-> loc[p].mapsiz])
        /\ UNCHANGED <<loc, diag, failed>>
     \/ /\ Abort(p, "cannot allocate")
        /\ loc' = [loc EXCEPT ![p].fd = "none"]
        /\ Call2(p, [op |-> "posix_fallocate", len |-> loc[p].mapsiz],
                 [op |-> "close"])
        /\ failed' = TRUE
        /\ UNCHANGED file
  /\ UNCHANGED <<unit, world, binary, cfg, runs>>

\* mutant: only a file that is too short is refused
SizeMismatchShort(st_size, mapsiz) == Less(st_size, mapsiz)

\* statbuf.st_size != mapsiz
SizeMismatch(st_size, mapsiz) == st_size # mapsiz

\* lines 322-327: the file was not empty at fstat
CheckSize(p) ==
  /\ pc[p] = "prepare"
  /\ loc[p].st_size # << >>
  /\ IF SizeMismatch(loc[p].st_size, loc[p].mapsiz)
     THEN /\ Abort(p, "profile file size mismatch")
          /\ loc' = [loc EXCEPT ![p].fd = "none"]
          /\ Call(p, [op |-> "close"])
     ELSE /\ Goto(p, "mmap")
          /\ UNCHANGED <<loc, diag, calls>>
  /\ UNCHANGED <<unit, world, binary, file, cfg, runs, failed>>

\* lines 329-337: mmap(NULL, mapsiz, ..., MAP_SHARED | MAP_FILE, fd, 0); close(fd)
Mmap(p) ==
  /\ pc[p] = "mmap"
  /\ Call2(p, [op |-> "mmap", len |-> loc[p].mapsiz], [op |-> "close"])
  /\ \/ /\ Goto(p, "header")
        /\ loc' = [loc EXCEPT ![p].fd = "none", ![p].mapped = TRUE]
        /\ UNCHANGED <<diag, failed>>
     \/ /\ Abort(p, "mmap")
        /\ loc' = [loc EXCEPT ![p].fd = "none"]
        /\ failed' = TRUE
  /\ UNCHANGED <<unit, world, binary, file, cfg, runs>>

\* mutant: the mapping is left in place
munmapSkipped(l) == l

\* the local state l after munmap(mapbase, mapsiz)
munmap(l) == [l EXCEPT !.mapped = FALSE]

\* mutant: the header built from the run-time address lowpc
HeaderLowPcRuntime(l) == l.lowpc

\* line 340: make_gmon_header(header, lowpc - load_addr, nsamples, s_scale)
HeaderLowPc(l) == SubWrap(l.lowpc, l.load_addr, 8)

Header(l) == make_gmon_header(LP64, HeaderLowPc(l), l.nsamples, l.s_scale)

\* mutant: the copy runs past the header and clears the first counters
MemcpyOverrun(f, header) ==
  [f EXCEPT !.hdr = header, !.bins = [i \in TrackedBins |-> 0]]

\* the file after memcpy(mapbase, header, HEADER_SIZE) through the shared mapping
Memcpy(f, header) == [f EXCEPT !.hdr = header]

\* lines 342-343: the file was empty at fstat
WriteHeader(p) ==
  /\ pc[p] = "header"
  /\ loc[p].st_size = << >>
  /\ file' = Memcpy(file, Header(loc[p]))
  /\ Goto(p, "profil")
  /\ UNCHANGED <<unit, world, binary, cfg, loc, calls, diag, runs, failed>>

\* mutant: only the gmon_hdr record at the start is compared
MemcmpMagic(f, header) ==
  SubSeq(f.hdr, 1, SizeofGmonHdr) # SubSeq(header, 1, SizeofGmonHdr)

\* memcmp(mapbase, header, HEADER_SIZE) != 0
Memcmp(f, header) == f.hdr # header

\* lines 344-349: the file was not empty at fstat
CompareHeader(p) ==
  /\ pc[p] = "header"
  /\ loc[p].st_size # << >>
  /\ IF Memcmp(file, Header(loc[p]))
     THEN /\ Abort(p, "profile header mismatch")
          /\ loc' = [loc EXCEPT ![p] = munmap(@)]
          /\ Call(p, [op |-> "munmap", len |-> loc[p].mapsiz])
     ELSE /\ Goto(p, "profil")
          /\ UNCHANGED <<loc, diag, calls>>
  /\ UNCHANGED <<unit, world, binary, file, cfg, runs, failed>>

\* mutant: the sampler is given the start of the mapping
ProfilCallMapBase(l) ==
  [op |-> "profil", buf |-> 0, size |-> l.bufsiz,
   offset |-> l.lowpc, scale |-> l.s_scale]

\* the arguments of profil(mapbase + HEADER_SIZE, bufsiz, lowpc, s_scale)
ProfilCall(l) ==
  [op |-> "profil", buf |-> HEADER_SIZE(LP64), size |-> l.bufsiz,
   offset |-> l.lowpc, scale |-> l.s_scale]

\* lines 354-359
Profil(p) ==
  /\ pc[p] = "profil"
  /\ \/ /\ Goto(p, "Active")
        /\ Call(p, ProfilCall(loc[p]))
        /\ UNCHANGED <<loc, diag, failed>>
     \/ /\ Abort(p, "profil")
        /\ loc' = [loc EXCEPT ![p] = munmap(@)]
        /\ Call2(p, ProfilCall(loc[p]), [op |-> "munmap", len |-> loc[p].mapsiz])
        /\ failed' = TRUE
  /\ UNCHANGED <<unit, world, binary, file, cfg, runs>>

\* the kernel sampler of an Active process counts a tick in bin i of the buffer
\* it was given: the unsigned short at mapbase + HEADER_SIZE + 2*i
Sample(p) ==
  /\ pc[p] = "Active"
  /\ \E i \in TrackedBins :
       /\ Less(FromNat(i), DivSmall(loc[p].bufsiz, SizeofUShort))
       /\ file.bins[i] < MaxCount
       /\ file' = [file EXCEPT !.bins[i] = @ + 1]
  /\ UNCHANGED <<unit, world, binary, pc, cfg, loc, calls, diag, runs, failed>>

(***************************************************************************)
(* The binaries and environments of the specifications.                    *)
(***************************************************************************)
\* PT_PHDR first, a read-only segment, then the text segment of memsz bytes
Table(memsz) ==
  << [p_type |-> "PT_PHDR", x |-> FALSE, p_vaddr |-> <<64>>, p_memsz |-> <<248>>],
     [p_type |-> "PT_INTERP", x |-> FALSE, p_vaddr |-> <<24, 3>>, p_memsz |-> <<28>>],
     [p_type |-> "PT_LOAD", x |-> FALSE, p_vaddr |-> << >>, p_memsz |-> <<0, 6>>],
     [p_type |-> "PT_LOAD", x |-> TRUE, p_vaddr |-> <<0, 16>>, p_memsz |-> memsz] >>

Bin(memsz) ==
  [phent |-> SizeofPhdr, phnum |-> 4, hasphdr |-> TRUE, phaddr |-> <<64>>,
   table |-> Table(memsz)]

\* a table with the PT_PHDR entry last and three executable segments, the first
\* of them empty
LateTable ==
  << [p_type |-> "PT_INTERP", x |-> FALSE, p_vaddr |-> <<24, 3>>, p_memsz |-> <<28>>],
     [p_type |-> "PT_LOAD", x |-> TRUE, p_vaddr |-> <<0, 8>>, p_memsz |-> << >>],
     [p_type |-> "PT_LOAD", x |-> TRUE, p_vaddr |-> <<0, 16>>, p_memsz |-> <<4>>],
     [p_type |-> "PT_LOAD", x |-> TRUE, p_vaddr |-> <<0, 48>>, p_memsz |-> <<8>>],
     [p_type |-> "PT_PHDR", x |-> FALSE, p_vaddr |-> <<64>>, p_memsz |-> <<24, 1>>] >>

\* binaries and auxiliary vectors out of the ordinary: AT_PHENT of another
\* size or absent, AT_PHNUM absent or short of the text segment, AT_PHDR
\* absent, an empty text segment, no PT_PHDR entry, LateTable, and LateTable
\* with AT_PHNUM at its first executable segment that is not empty
OddBins ==
  LET b == Bin(<<4>>)
  IN  { [b EXCEPT !.phent = 64], [b EXCEPT !.phent = 0], [b EXCEPT !.phnum = 0],
        [b EXCEPT !.phnum = 3], [b EXCEPT !.hasphdr = FALSE], Bin(<< >>),
        [b EXCEPT !.phnum = 3, !.table = Tail(b.table)],
        [b EXCEPT !.phnum = 5, !.table = LateTable],
        [b EXCEPT !.phnum = 3, !.table = LateTable] }

\* load biases: a binary linked at its run address, and a relocated one
Relocated == <<0, 64, 85, 85, 85, 85>>

Biases == {<< >>, Relocated}

\* SP_SCALE in the runs that share a file: unset, "3", "70000", "80000"
ShareScales ==
  {NoEnv, <<"3">>, <<"7", "0", "0", "0", "0">>, <<"8", "0", "0", "0", "0">>}

\* SP_SCALE in the runs of one environment
WideScales ==
  { NoEnv, << >>, <<"0">>, <<"1">>, <<"3">>, <<"4", "x">>, <<"4", " ">>,
    <<"4", " ", "x">>, <<"+", "4">>, <<"-", "4">>,
    <<"7", "0", "0", "0", "0">>,
    <<"1", "3", "1", "0", "7", "2">>, <<"1", "3", "1", "0", "7", "3">>,
    <<"4", "2", "9", "4", "9", "6", "7", "2", "9", "6">>,
    <<"4", "2", "9", "4", "9", "6", "7", "2", "9", "7">> }

\* 2^50
TwoTo50 == <<0, 0, 0, 0, 0, 0, 4>>

\* p_memsz of the text segment: 1, 65536, 2^49, 2^50 - 3, 2^50 - 1, 2^63,
\* 2^64 - 2, 2^64 - 1
WideMemsz ==
  { <<1>>, Pow256(2), <<0, 0, 0, 0, 0, 0, 2>>,
    SubWrap(TwoTo50, <<3>>, 8), SubWrap(TwoTo50, <<1>>, 8),
    <<0, 0, 0, 0, 0, 0, 0, 128>>, SubWrap(<< >>, <<2>>, 8), SubWrap(<< >>, <<1>>, 8) }

\* unit: the call of a function of the library examined on its own, with its
\* arguments and its result; none in the runs of the bootstrap
NoUnit == [fn |-> "none"]

InitRest ==
  /\ file = NoFile
  /\ pc = [p \in Procs |-> "idle"]
  /\ cfg = [p \in Procs |-> NoCfg]
  /\ loc = [p \in Procs |-> NoLoc]
  /\ calls = [p \in Procs |-> << >>]
  /\ diag = [p \in Procs |-> << >>]
  /\ runs = 0
  /\ failed = FALSE
  /\ unit = NoUnit

\* processes of one binary, started at any time with any of ShareScales
Init ==
  /\ world = [overlap |-> TRUE, prognames |-> {"prog"}, biases |-> {Relocated},
              scales |-> ShareScales]
  /\ binary = Bin(<<4>>)
  /\ InitRest

\* processes started one after the other's bootstrap: of any of the binaries
\* with one value of SP_SCALE, of one binary with any of ShareScales, or of
\* one of OddBins
InitSeq ==
  /\ \/ /\ world \in { [overlap |-> FALSE, prognames |-> {n}, biases |-> Biases,
                        scales |-> {s}] : n \in {"NULL", "prog"}, s \in WideScales }
        /\ binary \in { Bin(m) : m \in WideMemsz }
     \/ /\ world = [overlap |-> FALSE, prognames |-> {"prog"}, biases |-> Biases,
                    scales |-> ShareScales]
        /\ binary = Bin(<<4>>)
     \/ /\ world = [overlap |-> FALSE, prognames |-> {"prog"}, biases |-> Biases,
                    scales |-> {NoEnv}]
        /\ binary \in OddBins
  /\ InitRest

Next ==
  \E p \in Procs :
    \/ Start(p)
    \/ SelectTarget(p)
    \/ Locate(p)
    \/ Scale(p)
    \/ Size(p)
    \/ Open(p)
    \/ Fstat(p)
    \/ Allocate(p)
    \/ CheckSize(p)
    \/ Mmap(p)
    \/ WriteHeader(p)
    \/ CompareHeader(p)
    \/ Profil(p)
    \/ Sample(p)

Spec == Init /\ [][Next]_vars

SpecSeq == InitSeq /\ [][Next]_vars

\* the steps of la_preinit in process p that are system calls, and its return
\* where it has no target
SystemCalls(p) ==
  \/ SelectTarget(p) \/ Open(p) \/ Fstat(p) \/ Allocate(p) \/ CheckSize(p)
  \/ Mmap(p) \/ Profil(p)

\* the steps of la_preinit in process p that compute on its own memory: the
\* program header walk (lines 195-249), the scale (258-272), the sizes
\* (274-284), and the header with its copy or comparison (339-349)
Computing == {"locate", "scale", "size", "header"}

Computes(p) ==
  /\ pc[p] \in Computing
  /\ pc' \in { [pc EXCEPT ![p] = s] :
                s \in (Computing \cup {"open", "profil", "Aborted"}) \ {pc[p]} }

\* SpecSeq with processes that keep running: a system call that can return
\* does, and a computation of the process comes to its end and the process
\* goes on from it
SpecLive ==
  SpecSeq /\ \A p \in Procs : WF_vars(SystemCalls(p)) /\ WF_pc(Computes(p))

(***************************************************************************)
(* The functions of the library on their own: one call, with arguments     *)
(* drawn from the sets below, and its result kept in unit.                 *)
(***************************************************************************)
\* sizeof(uintptr_t), sizeof(unsigned short), alignof(unsigned short)
Platforms ==
  { [ptr |-> w, ushort |-> u[1], align |-> u[2]] :
      w \in {4, 8}, u \in {<<2, 2>>, <<2, 1>>, <<4, 4>>} }

\* arguments of make_gmon_header: lowpc; nsamples 0, 5, 2^32 + 5, 2^47; scale
HdrLowPcs == {<<0, 16>>, <<0, 32>>}

HdrSamples == {<< >>, <<5>>, <<5, 0, 0, 0, 1>>, <<0, 0, 0, 0, 0, 128>>}

HdrScales == {1, 3, 32768, 70000, 80000}

HdrArgs ==
  { [lowpc |-> l, nsamples |-> n, scale |-> s] :
      l \in HdrLowPcs, n \in HdrSamples, s \in HdrScales }

\* the bytes make_gmon_header leaves in the buffer on platform pl, where
\* uintptr_t and size_t have pl.ptr bytes, and whether its cursor ended at
\* header + HEADER_SIZE (the assert of line 179)
HeaderCall(pl, a) ==
  LET out == make_gmon_header(pl, Wrap(a.lowpc, pl.ptr),
                              Wrap(a.nsamples, pl.ptr), a.scale)
  IN  [args |-> a, out |-> out, asserted |-> Len(out) = HEADER_SIZE(pl)]

\* make_gmon_header is called twice on a platform the library compiles for
BuildHeaders ==
  /\ unit = NoUnit
  /\ \E pl \in Platforms, a, b \in HdrArgs :
       /\ StaticAssert(pl)
       /\ unit' = [fn |-> "make_gmon_header", pl |-> pl,
                   a |-> HeaderCall(pl, a), b |-> HeaderCall(pl, b)]
  /\ UNCHANGED <<world, binary, file, pc, cfg, loc, calls, diag, runs, failed>>

\* processes: run by its full path with a short argv[0], by a relative path,
\* and by its full path with a foreign argv[0]
SelProcs ==
  { [execfn |-> <<"/", "b", "/", "a", "b">>, argv0 |-> <<"a", "b">>],
    [execfn |-> <<"b", "/", "a", "b">>, argv0 |-> <<"b", "/", "a", "b">>],
    [execfn |-> <<"/", "b", "/", "a", "b">>, argv0 |-> <<"a">>] }

\* patterns of SP_PROFILE: "", "ab", "a", "/b/*", "*/ab", "*", "b/a?"
SelPatterns ==
  { << >>, <<"a", "b">>, <<"a">>, <<"/", "b", "/", "*">>,
    <<"*", "/", "a", "b">>, <<"*">>, <<"b", "/", "a", "?">> }

\* the most patterns in a value of SP_PROFILE
MaxPatterns == 3

RECURSIVE Join(_)
\* the patterns written one after the other with colons between them
Join(ps) ==
  IF ps = << >> THEN << >>
  ELSE IF Len(ps) = 1 THEN ps[1]
  ELSE ps[1] \o <<":">> \o Join(Tail(ps))

\* match_program_name is called in a process whose SP_PROFILE is a list of
\* patterns, and in the same process with the list in another order
MatchProgramName ==
  /\ unit = NoUnit
  /\ \E proc \in SelProcs, n \in 1..MaxPatterns :
       \E ps \in [1..n -> SelPatterns], f \in [1..n -> 1..n] :
         /\ \A i, j \in 1..n : f[i] = f[j] => i = j
         /\ LET qs == [i \in 1..n |-> ps[f[i]]]
            IN  unit' = [fn |-> "match_program_name", proc |-> proc,
                         pats |-> ps, env |-> Join(ps), permuted |-> Join(qs),
                         out |-> match_program_name(Join(ps), proc),
                         out2 |-> match_program_name(Join(qs), proc)]
  /\ UNCHANGED <<world, binary, file, pc, cfg, loc, calls, diag, runs, failed>>

\* match_program_name is called in a process without SP_PROFILE
MatchNoPatterns ==
  /\ unit = NoUnit
  /\ \E proc \in SelProcs :
       unit' = [fn |-> "match_program_name", proc |-> proc, pats |-> << >>,
                env |-> NoEnv, permuted |-> NoEnv,
                out |-> match_program_name(NoEnv, proc),
                out2 |-> match_program_name(NoEnv, proc)]
  /\ UNCHANGED <<world, binary, file, pc, cfg, loc, calls, diag, runs, failed>>

\* pieces of templates with the arguments they take: "%d", "a%u", "%s",
\* "a%%", "%%", "a%.3s" with a null string, "a%#s", "b%+lx%q"
FmtPieces ==
  { [fmt |-> <<"%", "d">>, arg |-> <<[neg |-> TRUE, abs |-> <<7>>]>>],
    [fmt |-> <<"a", "%", "u">>, arg |-> <<<<57, 48>>>>],
    [fmt |-> <<"%", "s">>, arg |-> <<<<"x", "y">>>>],
    [fmt |-> <<"a", "%", "%">>, arg |-> << >>],
    [fmt |-> <<"%", "%">>, arg |-> << >>],
    [fmt |-> <<"a", "%", ".", "3", "s">>, arg |-> <<NoEnv>>],
    [fmt |-> <<"a", "%", "#", "s">>, arg |-> <<<<"\t", "^[">>>>],
    [fmt |-> <<"b", "%", "+", "l", "x", "%", "q">>, arg |-> <<<<255>>>>] }

\* the most pieces in a template
MaxPieces == 29

RECURSIVE Repeat(_, _)
\* the sequence s written k times
Repeat(s, k) == IF k = 0 THEN << >> ELSE s \o Repeat(s, k - 1)

\* tags: "error", and none
FmtTags == {<<"e", "r", "r", "o", "r">>, NoEnv}

\* veprintf is called with a template of up to MaxPieces equal pieces, of
\* 2 * MaxPieces characters at most, and a last piece
Veprintf ==
  /\ unit = NoUnit
  /\ \E piece \in FmtPieces, k \in 0..MaxPieces, last \in FmtPieces, tag \in FmtTags :
       LET fmt == Repeat(piece.fmt, k) \o last.fmt
           arg == Repeat(piece.arg, k) \o last.arg
       IN  /\ k * Len(piece.fmt) <= 2 * MaxPieces
           /\ unit' = [fn |-> "veprintf", tag |-> tag, fmt |-> fmt, arg |-> arg,
                        out |-> veprintf(<<"p">>, tag, fmt, arg)]
  /\ UNCHANGED <<world, binary, file, pc, cfg, loc, calls, diag, runs, failed>>

\* the strings and precisions given to the conversion %#s: a null string, the
\* empty one, ordinary characters, a character of CTRL1, control and 8-bit
\* characters before an octal digit and before another character
StrvisSrcs ==
  { NoEnv, << >>, <<"a">>, <<"a", "b", "c">>, <<"\t", "^[">>, <<"^A", "7">>,
    <<"M-^?", "\"">>, <<"^A", "7", "a", "^?">> }

\* the precisions: none (-1), and 0 .. 5
StrvisPrecs == {-1, 0, 1, 2, 3, 4, 5}

\* lines 318-320 of veprintf: my_strvis(NULL, str, 0, maxlen) sizes the
\* buffer, alloca makes it, my_strvis(buffer, str, 0, maxlen) fills it.  A
\* store through the null dst in the first call is undefined: the process is
\* stopped by it ("fault", and there is no second call), or goes on.
StrvisPasses ==
  /\ unit = NoUnit
  /\ \E src \in StrvisSrcs, prec \in StrvisPrecs :
       LET size == my_strvis(FALSE, src, prec)
       IN  \E ub \in IF size.wild THEN {"fault", "goes on"} ELSE {"none"} :
             unit' = [fn |-> "my_strvis", src |-> src, maxlen |-> prec,
                      size |-> size, ub |-> ub, iov_len |-> size.n,
                      write |-> IF ub = "fault" THEN << >>
                                ELSE my_strvis(TRUE, src, prec).out]
  /\ UNCHANGED <<world, binary, file, pc, cfg, loc, calls, diag, runs, failed>>

InitFn ==
  /\ world = [overlap |-> FALSE, prognames |-> {"NULL"}, biases |-> {<< >>},
              scales |-> {NoEnv}]
  /\ binary = Bin(<<4>>)
  /\ InitRest

NextFn ==
  \/ BuildHeaders
  \/ MatchProgramName
  \/ MatchNoPatterns
  \/ Veprintf
  \/ StrvisPasses

SpecFn == InitFn /\ [][NextFn]_vars
(***************************************************************************)
(* Properties.                                                             *)
(***************************************************************************)
\* the last message of process p is the error message msg
Said(p, msg) ==
  diag[p] # << >> /\ diag[p][Len(diag[p])] = [tag |-> "error", msg |-> msg]

\* process p has made the system call op in its run
Called(p, op) == \E i \in 1..Len(calls[p]) : calls[p][i].op = op

\* process p created the file's contents in its run and is sampling
Creator(p) == pc[p] = "Active" /\ loc[p].st_size = << >>

AfterFstat == {"prepare", "mmap", "header", "profil", "Active"}

C2_ValidateOrAbort ==
  [][\A p \in Procs :
       LET l == loc[p] IN
       /\ (pc[p] = "prepare" /\ l.st_size # << >> /\ pc'[p] # "prepare") =>
            IF l.st_size = l.mapsiz
            THEN pc'[p] = "mmap" /\ file' = file
            ELSE /\ pc'[p] = "Aborted" /\ file' = file
                 /\ diag'[p] = <<[tag |-> "error", msg |-> "profile file size mismatch"]>>
                 /\ ~loc'[p].mapped
                 /\ \A i \in 1..Len(calls'[p]) : calls'[p][i].op # "mmap"
       /\ (pc[p] = "header" /\ l.st_size # << >> /\ pc'[p] # "header") =>
            IF file.hdr = Header(l)
            THEN pc'[p] = "profil" /\ file' = file /\ l.st_size = l.mapsiz
            ELSE /\ pc'[p] = "Aborted" /\ file' = file
                 /\ diag'[p] = <<[tag |-> "error", msg |-> "profile header mismatch"]>>
       /\ (pc'[p] = "Active" /\ pc[p] # "Active" /\ l.st_size # << >>) =>
            l.st_size = l.mapsiz
  ]_vars

\* C2 witness: a run was refused for the size of the file that a sampling
\* process created
C2_Witness ==
  \E p, q \in Procs :
    /\ pc[p] = "Aborted" /\ loc[p].st_size # << >>
    /\ Said(p, "profile file size mismatch")
    /\ Creator(q)

\* C3: a step that changes a sample counter of the file is a step of the
\* sampler of an Active process; no step of a bootstrap does.
C3_OnlySamplerWritesBins ==
  [][file'.bins # file.bins => \E p \in Procs : Sample(p)]_vars

\* C3 witness: a bootstrap is about to write or compare the header of a file
\* that holds a counted sample
C3_Witness ==
  \E p \in Procs : pc[p] = "header" /\ \E i \in TrackedBins : file.bins[i] > 0
BothEnded ==
  /\ runs = 2 /\ ~failed
  /\ \A p \in Procs : pc[p] \in Terminal
  /\ cfg[1].scale = cfg[2].scale /\ cfg[1].progname = cfg[2].progname

\* C5 as claimed: two processes with the same configuration that start with no
\* file and meet no failing system call both end Active, and the file has
\* total_mapped_size bytes and the built header
C5_Original ==
  BothEnded =>
    \A p \in Procs :
      /\ pc[p] = "Active"
      /\ file.size = loc[p].mapsiz /\ file.hdr = Header(loc[p])

\* process p has written the header or found it equal to its own
HeaderSettled(p) == pc[p] \in {"profil", "Active"}

\* C6 as claimed: once a process has written or validated the header, no step
\* changes the size of the file or a byte of its header
C6_Original ==
  [][(\E p \in Procs : HeaderSettled(p)) =>
       file'.size = file.size /\ file'.hdr = file.hdr]_vars
(***************************************************************************)
(* The sizes and the scale as exact numbers, for comparison.               *)
(***************************************************************************)
\* the Size step of process p has acted in its run
Sized(p) == loc[p].s_scale # 0 /\ pc[p] # "size"

\* The sizes computed without any reduction: sample_count =
\* floor(floor((mem_size + 1) / 2) * scale / 65536), raw_buffer_size,
\* total_mapped_size, and whether mem_size + 1, the product with the scale,
\* raw_buffer_size or total_mapped_size exceeds size_t.
Exact(m, s) ==
  LET succ  == Add(m, <<1>>)
      prod  == MulSmall(DivSmall(succ, 2), s)
      count == DivSmall(prod, 65536)
      buf   == MulSmall(count, SizeofUShort)
      map   == Add(FromNat(HEADER_SIZE(LP64)), buf)
  IN  [count |-> count, buf |-> buf, map |-> map,
       overflow |-> ~Fits(succ, 8) \/ ~Fits(prod, 8) \/ ~Fits(buf, 8) \/ ~Fits(map, 8)]

\* C7 as claimed: whenever an intermediate result exceeds size_t the run ends
\* with the overflow message and has made no system call
C7_Original ==
  \A p \in Procs :
    (Sized(p) /\ Exact(loc[p].memsz, loc[p].s_scale).overflow) =>
      /\ pc[p] = "Aborted" /\ Said(p, "profile buffer size overflow")
      /\ calls[p] = << >>

\* C8: when no intermediate result exceeds size_t, the Size step does not
\* report an overflow, the three sizes are the exact ones, and they are the
\* lengths given to posix_fallocate, compared with st_size, given to mmap and
\* munmap and given to profil as the buffer length.
C8_ExactSizes ==
  \A p \in Procs :
    Sized(p) =>
      LET e == Exact(loc[p].memsz, loc[p].s_scale) IN
      ~e.overflow =>
        /\ ~Said(p, "profile buffer size overflow")
        /\ loc[p].nsamples = e.count
        /\ loc[p].bufsiz = e.buf
        /\ loc[p].mapsiz = e.map
        /\ \A i \in 1..Len(calls[p]) :
             LET c == calls[p][i] IN
             /\ c.op \in {"posix_fallocate", "mmap", "munmap"} => c.len = e.map
             /\ c.op = "profil" =>
                  /\ c.size = e.buf /\ c.scale = loc[p].s_scale
                  /\ c.buf = HEADER_SIZE(LP64)
        /\ (pc[p] \in {"mmap", "header", "profil", "Active"} /\ ~failed) =>
             /\ file.size = e.map
             /\ loc[p].st_size # << >> => loc[p].st_size = e.map

\* C8 witness: a sampling process whose segment has the odd size 2^50 - 3, the
\* largest that the default scale does not overflow
C8_Witness ==
  \E p \in Procs :
    /\ pc[p] = "Active" /\ ~Exact(loc[p].memsz, loc[p].s_scale).overflow
    /\ loc[p].memsz = SubWrap(TwoTo50, <<3>>, 8)
    /\ loc[p].nsamples # << >>

(***************************************************************************)
(* The scale override as a text.                                           *)
(***************************************************************************)
RECURSIVE RTrim(_)
RTrim(s) ==
  IF s # << >> /\ IsSpace(s[Len(s)]) THEN RTrim(SubSeq(s, 1, Len(s) - 1)) ELSE s

\* white space around the text does not count
Trimmed(s) == RTrim(SkipSpace(s))

AllDigits(s) == s # << >> /\ \A i \in 1..Len(s) : s[i] \in Digits

\* a positive decimal integer, with or without a plus sign
PositiveInteger(str) ==
  LET t == Trimmed(str)
      b == IF t # << >> /\ t[1] = "+" THEN Tail(t) ELSE t
  IN  AllDigits(b) /\ Decimal(b, << >>) # << >>

\* a decimal integer with or without a sign
SignedInteger(str) ==
  LET t == Trimmed(str)
  IN  AllDigits(IF t # << >> /\ t[1] \in {"+", "-"} THEN Tail(t) ELSE t)

\* the unsigned int that %u stores for a signed integer
StoredValue(str) ==
  LET t == Trimmed(str)
      signed == t[1] \in {"+", "-"}
  IN  ScanUnsigned(IF signed THEN Tail(t) ELSE t, t[1] = "-")

\* the Scale step of process p has acted on an override
ScaledOverride(p) ==
  /\ cfg[p].scale # NoEnv /\ loc[p].memsz # << >>
  /\ pc[p] \notin {"idle", "select", "locate", "scale"}

\* the run of p was refused for its scale before it made any system call
RefusedScale(p) ==
  /\ pc[p] = "Aborted" /\ Said(p, "invalid SP_SCALE")
  /\ calls[p] = << >> /\ loc[p].s_scale = 0

\* C9 as claimed: an override is accepted exactly when it is a positive
\* integer without trailing garbage
C9_Original ==
  \A p \in Procs :
    ScaledOverride(p) =>
      IF PositiveInteger(cfg[p].scale)
      THEN loc[p].s_scale # 0 /\ ~Said(p, "invalid SP_SCALE")
      ELSE RefusedScale(p)

\* C9 amended: an override is accepted exactly when it is a signed decimal
\* integer with nothing but white space around it and the unsigned int v that
\* %u stores for it is in 1..131072; the scale used for sizing is then
\* 131072 div v, and every other override is refused with the invalid-scale
\* message before any system call.
C9_AcceptedOverride ==
  \A p \in Procs :
    ScaledOverride(p) =>
      LET str == cfg[p].scale
          v   == StoredValue(str)
      IN
      IF SignedInteger(str) /\ v # << >> /\ ~Less(FromNat(131072), v)
      THEN /\ ~Said(p, "invalid SP_SCALE")
           /\ loc[p].s_scale = 131072 \div ToNat(v)
           /\ loc[p].s_scale > 0
      ELSE RefusedScale(p)

\* C9 witness: the overrides "131072" and "4 " were accepted and the
\* bootstrap went on with the scales 1 and 32768
C9_Witness ==
  \E p \in Procs :
    /\ ScaledOverride(p) /\ pc[p] = "Active"
    /\ \/ cfg[p].scale = <<"1", "3", "1", "0", "7", "2">> /\ loc[p].s_scale = 1
       \/ cfg[p].scale = <<"4", " ">> /\ loc[p].s_scale = 32768

(***************************************************************************)
(* The fields of the real histogram record in the file.                    *)
(***************************************************************************)
\* the unsigned integer of n bytes at offset off of the header h
Field(h, off, n) == Norm(SubSeq(h, off + 1, off + n))

RealRecord == HEADER_SIZE(LP64) - SizeofHistHdr(LP64)

\* the arguments of the profil call of an Active process
ProfilArgs(p) == calls[p][Len(calls[p])]

\* entry k of the table is a loadable, executable segment that is not empty
TextEntry(k) ==
  LET e == binary.table[k]
  IN  e.p_type = "PT_LOAD" /\ e.x /\ e.p_memsz # << >>

\* C10 as claimed: the record's low_pc is the low_pc given to the sampler,
\* its hist_size is sample_count and its high_pc is
\* low_pc + sample_count * (65536 * 2 / scale)
C10_Original ==
  \A p \in Procs :
    pc[p] = "Active" =>
      LET a  == ProfilArgs(p)
          lo == Field(file.hdr, RealRecord, 8)
      IN  /\ lo = a.offset
          /\ Field(file.hdr, RealRecord + 16, 4) = loc[p].nsamples
          /\ Field(file.hdr, RealRecord + 8, 8)
               = Add(lo, MulSmall(loc[p].nsamples, 131072 \div a.scale))

\* C10 amended: the record's low_pc is the link-time address of the segment,
\* the first executable one of the table, that is the low_pc given to the
\* sampler minus the load bias; its hist_size
\* is sample_count modulo 2^32; its high_pc is that low_pc plus
\* sample_count * (131072 div scale), modulo 2^64.
C10_LinkTimeRange ==
  \A p \in Procs :
    pc[p] = "Active" =>
      LET a  == ProfilArgs(p)
          lo == Field(file.hdr, RealRecord, 8)
      IN  /\ lo = SubWrap(a.offset, cfg[p].bias, 8)
          /\ \E k \in 1..binary.phnum :
               /\ TextEntry(k) /\ \A j \in 1..(k - 1) : ~TextEntry(j)
               /\ lo = binary.table[k].p_vaddr
          /\ a.offset = Wrap(Add(cfg[p].bias, lo), 8)
          /\ Field(file.hdr, RealRecord + 16, 4) = Wrap(loc[p].nsamples, 4)
          /\ Field(file.hdr, RealRecord + 8, 8)
               = Wrap(Add(lo, MulSmall(loc[p].nsamples, 131072 \div a.scale)), 8)

\* C10 witness: a relocated process samples more than 2^32 bins
C10_Witness ==
  \E p \in Procs :
    /\ pc[p] = "Active" /\ cfg[p].bias = Relocated
    /\ ~Fits(loc[p].nsamples, 4)

(***************************************************************************)
(* The header builder on every platform.                                   *)
(***************************************************************************)
\* the byte at offset off of the sequence h is the tag of a histogram record
TagAt(h, off) == SubSeq(h, off + 1, off + 1) = TagTimeHist

\* the header out has the magic record, then the dummy record and its unsigned
\* short if dummy, then the real record, and nothing else
Layout(pl, out, dummy) ==
  LET real == IF dummy THEN BASE_HEADER_SIZE(pl) + pl.ushort ELSE SizeofGmonHdr
  IN  /\ Len(out) = real + 1 + SizeofHistHdr(pl)
      /\ SubSeq(out, 1, SizeofGmonHdr) = ghdr
      /\ TagAt(out, real)
      /\ dummy => TagAt(out, SizeofGmonHdr)

\* C11: on every platform the library compiles for, the header has the dummy
\* record exactly when the size of magic record, tag and one histogram record
\* is no multiple of the alignment of unsigned short; HEADER_SIZE is a multiple
\* of that alignment in both cases; and make_gmon_header writes exactly
\* HEADER_SIZE bytes, its final assertion holding.
C11_AlignedHeader ==
  unit.fn = "make_gmon_header" =>
    LET pl == unit.pl
        natural == SizeofGmonHdr + 1 + SizeofHistHdr(pl)
    IN  /\ HEADER_SIZE(pl) % pl.align = 0
        /\ \A c \in {unit.a, unit.b} :
             /\ Layout(pl, c.out, natural % pl.align # 0)
             /\ c.asserted
             /\ Len(c.out) = HEADER_SIZE(pl)

\* C11 witness: a header with the dummy record for 32-bit addresses, 88 bytes
C11_Witness ==
  /\ unit.fn = "make_gmon_header" /\ unit.pl.ptr = 4 /\ unit.pl.align = 2
  /\ Len(unit.a.out) = 88 /\ TagAt(unit.a.out, 53 + 2)

LastPart(path) ==
  LET cut == {i \in 1..Len(path) : path[i] = "/"}
  IN  SubSeq(path, (IF cut = {} THEN 0 ELSE CHOOSE i \in cut : \A j \in cut : j <= i) + 1,
             Len(path))

\* the pattern pat selects the process proc: with a slash in it, it matches
\* one of the two full paths; without, one of the two base names
Selects(pat, proc) ==
  IF \E i \in 1..Len(pat) : pat[i] = "/"
  THEN fnmatch(pat, proc.execfn) = 0 \/ fnmatch(pat, proc.argv0) = 0
  ELSE fnmatch(pat, LastPart(proc.execfn)) = 0 \/ fnmatch(pat, LastPart(proc.argv0)) = 0

\* C13: profiling is enabled exactly when SP_PROFILE is set and one of its
\* colon-separated patterns (the parts between colons that are not empty)
\* selects the process, a pattern with a slash by the two full paths only and
\* one without by the two base names only; the name returned is then the base
\* name of the execution path; and the result is the same for the list in
\* any other order.
C13_SelectorOrderFree ==
  unit.fn = "match_program_name" =>
    LET enabled == /\ unit.env # NoEnv
                   /\ \E i \in 1..Len(unit.pats) :
                        unit.pats[i] # << >> /\ Selects(unit.pats[i], unit.proc)
    IN  /\ unit.out # NoEnv <=> enabled
        /\ unit.out # NoEnv => unit.out = LastPart(unit.proc.execfn)
        /\ unit.out2 = unit.out

\* C13 witness: only the last pattern of the list selects the process, by the
\* path of its argv[0], and the list in another order selects it too
C13_Witness ==
  /\ unit.fn = "match_program_name" /\ Len(unit.pats) = 3
  /\ unit.env # unit.permuted /\ unit.out # NoEnv
  /\ ~Selects(unit.pats[1], unit.proc) /\ ~Selects(unit.pats[2], unit.proc)
  /\ unit.pats[3] = <<"*", "/", "a", "b">>

(***************************************************************************)
(* The segment locator.                                                    *)
(***************************************************************************)
\* the Locate step of process p has acted in its run
Located(p) == pc[p] \notin {"idle", "select", "locate", "Disabled"}

\* the entries of the table that the auxiliary vector counts
Counted == SubSeq(binary.table, 1, binary.phnum)

\* entry e is a loadable, executable segment that is not empty
Executable(e) == e.p_type = "PT_LOAD" /\ e.x /\ e.p_memsz # << >>

\* the load bias probed from the entries before the first executable segment:
\* zero without a PT_PHDR entry among them
ProbedBias(bias) ==
  IF \E i \in 1..Len(Counted) :
       /\ Counted[i].p_type = "PT_PHDR"
       /\ \A j \in 1..i : ~Executable(Counted[j])
  THEN bias ELSE << >>

\* what the bootstrap of a process loaded at bias has to refuse: an entry size
\* that is not sizeof(ElfW(Phdr)), no entry count, no table address, no
\* executable segment, a probed load bias that is not the loader's
Inconsistent(bias) ==
  \/ binary.phent \notin {0, SizeofPhdr}
  \/ binary.phnum = 0
  \/ ~binary.hasphdr
  \/ \A i \in 1..Len(Counted) : ~Executable(Counted[i])
  \/ ProbedBias(bias) # bias

\* C14 as claimed: a run that met one of the inconsistencies ended Aborted
\* with an error message and without a system call
C14_Original ==
  \A p \in Procs :
    (Located(p) /\ Inconsistent(cfg[p].bias)) =>
      /\ pc[p] = "Aborted"
      /\ \E i \in 1..Len(diag[p]) : diag[p][i].tag = "error"
      /\ calls[p] = << >>

(***************************************************************************)
(* The descriptor and the mapping of a run.                                *)
(***************************************************************************)
\* how many system calls op process p has made in its run
Count(p, op) == Cardinality({i \in 1..Len(calls[p]) : calls[p][i].op = op})

\* C15: a run that ended Aborted has no descriptor open and no mapping left,
\* whichever step failed: it closed what it opened and unmapped what it
\* mapped; a run that ended Active closed its descriptor and keeps exactly
\* one mapping, of total_mapped_size bytes.
C15_ResourcesReleased ==
  \A p \in Procs :
    /\ pc[p] = "Aborted" =>
         /\ loc[p].fd # "open" /\ ~loc[p].mapped
         /\ Count(p, "close") = Count(p, "open")
         /\ Count(p, "munmap") <= Count(p, "mmap")
         /\ (Said(p, "profile header mismatch") \/ Said(p, "profil")) =>
              /\ Count(p, "mmap") = 1 /\ Count(p, "munmap") = 1
              /\ calls[p][Len(calls[p])] = [op |-> "munmap", len |-> loc[p].mapsiz]
    /\ pc[p] = "Active" =>
         /\ loc[p].fd = "none" /\ loc[p].mapped
         /\ Count(p, "open") = 1 /\ Count(p, "close") = 1
         /\ Count(p, "mmap") = 1 /\ Count(p, "munmap") = 0
         /\ \E i \in 1..Len(calls[p]) :
              calls[p][i] = [op |-> "mmap", len |-> loc[p].mapsiz]

\* C15 witness: one run was refused by profil and released its mapping, the
\* other keeps its own
C15_Witness ==
  \E p, q \in Procs :
    /\ pc[p] = "Aborted" /\ Said(p, "profil") /\ Called(p, "munmap")
    /\ pc[q] = "Active"

(***************************************************************************)
(* The segments of a diagnostic.                                           *)
(***************************************************************************)
\* the specifier at the head of fmt, a percent sign: its conversion character
\* c, the template after it and the arguments left once a precision given
\* as .* is taken
Specifier(fmt, arg) ==
  LET f == ParsePrecision(ParseModifier(ParseFlags(Tail(fmt), {})), arg)
  IN  [c |-> Head(f.fmt), after |-> Tail(f.fmt), arg |-> f.arg, prec |-> f.prec]

RECURSIVE Specifiers(_, _, _)
\* the specifiers of a template plus its strings of ordinary characters, the
\* longest runs of characters outside any specifier
Specifiers(fmt, arg, inrun) ==
  IF fmt = << >> THEN 0
  ELSE IF Head(fmt) # "%"
  THEN (IF inrun THEN 0 ELSE 1) + Specifiers(Tail(fmt), arg, TRUE)
  ELSE LET sp == Specifier(fmt, arg)
       IN  1 + Specifiers(sp.after,
                          IF sp.c \in {"d", "u", "x", "X", "p", "s"}
                          THEN Tail(sp.arg) ELSE sp.arg, FALSE)

RECURSIVE Pieces(_, _, _)
\* the pieces of output of a template: one for each conversion d, u, x, X, p
\* and s, except s of a null string with a precision below 5 and without #,
\* which prints nothing; and one for each run of text, where a run ends
\* before every percent sign, and the character of a specifier that is no
\* conversion (as in %%) is text that begins a run
Pieces(fmt, arg, inrun) ==
  IF fmt = << >> THEN 0
  ELSE IF Head(fmt) # "%"
  THEN (IF inrun THEN 0 ELSE 1) + Pieces(Tail(fmt), arg, TRUE)
  ELSE LET sp == Specifier(fmt, arg)
       IN  IF sp.c \in {"d", "u", "x", "X", "p"}
           THEN 1 + Pieces(sp.after, Tail(sp.arg), FALSE)
           ELSE IF sp.c = "s"
           THEN (IF /\ Head(sp.arg) = NoEnv /\ sp.prec \in 0..4
                    /\ ~(\E i \in 1..Len(fmt) - Len(sp.after) : fmt[i] = "#")
                 THEN 0 ELSE 1)
                  + Pieces(sp.after, Tail(sp.arg), FALSE)
           ELSE 1 + Pieces(sp.after, sp.arg, TRUE)

\* veprintf assembled the whole diagnostic and wrote it with one writev
Emitted(r, n) ==
  ~r.aborted /\ ~r.fault /\ r.writev = 1 /\ Len(r.iov) = n
    /\ r.iov[Len(r.iov)] = <<"\n">>

Found(p) == loc[p].memsz # << >>

\* C17: when the locator succeeds, the segment it chose is the first entry of
\* the table, among those the entry count covers, that is loadable,
\* executable and not empty; mem_size is its memory size and low_pc is the
\* load bias plus its virtual address; and the load bias is the loader's and,
\* for a PT_PHDR entry anywhere in the table, the run-time address of the
\* table minus the virtual address of that entry.
C17_FirstExecutableSegment ==
  \A p \in Procs :
    Found(p) =>
      /\ \E k \in 1..binary.phnum :
           /\ Executable(binary.table[k])
           /\ \A j \in 1..(k - 1) : ~Executable(binary.table[j])
           /\ loc[p].memsz = binary.table[k].p_memsz
           /\ loc[p].lowpc = Wrap(Add(loc[p].load_addr, binary.table[k].p_vaddr), 8)
           /\ loc[p].examined = k
      /\ loc[p].load_addr = cfg[p].bias
      /\ \A i \in 1..Len(binary.table) :
           binary.table[i].p_type = "PT_PHDR" =>
             loc[p].load_addr
               = SubWrap(AtPhdr(binary, cfg[p].bias), binary.table[i].p_vaddr, 8)

\* C17 witness: the segment was found in the table whose PT_PHDR entry comes
\* last and whose first executable segment is empty
C17_Witness ==
  \E p \in Procs :
    /\ Found(p) /\ binary.table = LateTable /\ pc[p] = "Active"
    /\ loc[p].memsz = <<4>> /\ loc[p].lowpc = <<0, 16>>

(***************************************************************************)
(* The order of the steps.                                                 *)
(***************************************************************************)
\* the run of p has a target, a segment, a scale and its sizes, and is at one
\* of the steps on the file
Prepared(p) ==
  /\ cfg[p].progname # "NULL" /\ Found(p)
  /\ loc[p].load_addr = cfg[p].bias
  /\ loc[p].s_scale # 0 /\ loc[p].mapsiz # << >>
  /\ pc[p] \in {"open", "fstat", "prepare", "mmap", "header", "profil"}

\* the run of p ended at target selection, segment location, scale parsing or
\* buffer sizing
EndedEarly(p) ==
  \/ pc[p] = "Disabled"
  \/ /\ pc[p] = "Aborted"
     /\ \/ diag[p] = << >>
        \/ \E m \in {"size of program header entry mismatch", "no program header",
                     "no loadable and executable segment found",
                     "load address mismatch", "invalid SP_SCALE",
                     "profile buffer size overflow"} : Said(p, m)

\* C18: a system call on the profile file, the sampler's included, is made
\* only by a run that has a target, a located segment whose load bias is the
\* loader's, a scale and its sizes; a step that creates the file, changes its
\* size or writes its header is a step of such a run; and a run that ended
\* at one of the four earlier steps has made no system call.
C18_FileAfterSizing ==
  [][\A p \in Procs :
       /\ (calls'[p] # calls[p] /\ calls'[p] # << >>) => Prepared(p)
       /\ (pc'[p] # pc[p] /\ (file'.exists # file.exists \/ file'.size # file.size
                                \/ file'.hdr # file.hdr)) => Prepared(p)
       /\ (file'.exists # file.exists \/ file'.size # file.size
             \/ file'.hdr # file.hdr) => \E q \in Procs : pc'[q] # pc[q]
       /\ EndedEarly(p)' => calls'[p] = << >> /\ ~loc'[p].mapped
  ]_vars

\* C18 witness: a run was refused for its load bias and made no system call,
\* beside a file that another run created
C18_Witness ==
  \E p, q \in Procs :
    /\ pc[p] = "Aborted" /\ Said(p, "load address mismatch") /\ calls[p] = << >>
    /\ Creator(q) /\ file.exists

\* the place of the first call of op in the log of p, 0 if there is none
FirstCall(p, op) ==
  IF Called(p, op)
  THEN CHOOSE i \in 1..Len(calls[p]) :
         /\ calls[p][i].op = op
         /\ \A j \in 1..(i - 1) : calls[p][j].op # op
  ELSE 0

\* the step activates the sampler of p
Activates(p) == pc[p] = "profil" /\ pc'[p] = "Active"

\* C19: where runs do not overlap, the step that activates the sampler of a
\* run finds the file mapped, of exactly the run's mapsiz = HEADER_SIZE +
\* bufsiz bytes with bufsiz = 2 * nsamples, and with the run's header in its
\* first HEADER_SIZE bytes, and passes the sampler the buffer at
\* mapbase + HEADER_SIZE of bufsiz bytes; the run of a new file has called
\* posix_fallocate with mapsiz before; the header is written only by a run
\* that has pre-allocated the file to mapsiz and has not yet called profil,
\* and never while a sampler is active.
C19_ReadyAtActivation ==
  [][\A p \in Procs :
       /\ Activates(p) =>
            /\ file.exists /\ loc[p].mapped
            /\ file.size = loc[p].mapsiz
            /\ loc[p].mapsiz = Add(FromNat(HEADER_SIZE(LP64)), loc[p].bufsiz)
            /\ loc[p].bufsiz = MulSmall(loc[p].nsamples, SizeofUShort)
            /\ file.hdr = Header(loc[p])
            /\ file' = file
            /\ LET c == calls'[p][Len(calls'[p])]
               IN  /\ c.op = "profil"
                   /\ c.buf = HEADER_SIZE(LP64)
                   /\ c.size = loc[p].bufsiz
            /\ loc[p].st_size = << >> =>
                 /\ FirstCall(p, "posix_fallocate") > 0
                 /\ calls[p][FirstCall(p, "posix_fallocate")].len = loc[p].mapsiz
                 /\ ~Called(p, "profil")
       /\ (pc'[p] # pc[p] /\ file'.hdr # file.hdr) =>
            /\ pc[p] = "header" /\ pc'[p] = "profil"
            /\ loc[p].st_size = << >>
            /\ Called(p, "posix_fallocate") /\ ~Called(p, "profil")
            /\ file.size = loc[p].mapsiz
            /\ file'.hdr = Header(loc[p])
            /\ \A q \in Procs : pc[q] # "Active"
       /\ file'.hdr # file.hdr => \E q \in Procs : pc'[q] # pc[q]
  ]_vars

\* C19 witness: the sampler of the run that created the file is active on a
\* buffer that is not empty
C19_Witness ==
  \E p \in Procs :
    /\ Creator(p) /\ loc[p].nsamples # << >>
    /\ FirstCall(p, "posix_fallocate") > 0
    /\ FirstCall(p, "posix_fallocate") < FirstCall(p, "profil")
    /\ file.size = loc[p].mapsiz /\ file.hdr = Header(loc[p])

(***************************************************************************)
(* Termination of the bootstrap.                                           *)
(***************************************************************************)
\* the place of a step in la_preinit
Rank(s) ==
  CASE s = "idle" -> 0 [] s = "select" -> 1 [] s = "locate" -> 2
    [] s = "scale" -> 3 [] s = "size" -> 4 [] s = "open" -> 5
    [] s = "fstat" -> 6 [] s = "prepare" -> 7 [] s = "mmap" -> 8
    [] s = "header" -> 9 [] s = "profil" -> 10 [] OTHER -> 11

\* C20: a run of the bootstrap never reads a program header entry past the
\* AT_PHNUM entries and calls each of open, fstat, posix_fallocate, mmap and
\* profil at most once; each of its steps takes it forward in la_preinit, an
\* ended run stays as it ended until the next process starts; and a process
\* that keeps running ends its bootstrap Disabled, Aborted or Active.
C20_EndsWithoutRetry ==
  /\ [](\A p \in Procs :
          /\ loc[p].examined <= binary.phnum
          /\ \A op \in {"open", "fstat", "posix_fallocate", "mmap", "profil"} :
               Count(p, op) <= 1)
  /\ [][\A p \in Procs :
          pc'[p] # pc[p] =>
            \/ Rank(pc'[p]) > Rank(pc[p])
            \/ pc[p] \in Terminal /\ pc'[p] = "select" /\ runs' = runs + 1
               /\ calls'[p] = << >>]_vars
  /\ \A p \in Procs : (pc[p] = "select") ~> (pc[p] \in Terminal)

\* C20 witness: one run ended Aborted after reading all the AT_PHNUM entries,
\* fewer than the table has, and another Active after one call of each of
\* the five
C20_Witness ==
  \E p, q \in Procs :
    /\ pc[p] = "Aborted" /\ Said(p, "load address mismatch")
    /\ loc[p].examined = binary.phnum /\ binary.phnum < Len(binary.table)
    /\ pc[q] = "Active"
    /\ \A op \in {"open", "fstat", "posix_fallocate", "mmap", "profil"} :
         Count(q, op) = 1

(***************************************************************************)
(* The two passes of the conversion %#s.                                   *)
(***************************************************************************)
\* C21 as stated: for every string, a null one included, and every precision,
\* the call of my_strvis with no destination stores nothing and returns the
\* number of characters that the call with the buffer then stores.
C21_Original ==
  unit.fn = "my_strvis" =>
    /\ unit.size.out = << >> /\ ~unit.size.wild /\ unit.ub = "none"
    /\ Len(unit.write) = unit.iov_len
====
